---- MODULE Spec2Model ----
(***************************************************************************)
(* Pitch-plan automation: the /start-pitch command handler, the background *)
(* job runner (process_pitch_plan), the Notion extractor and the three     *)
(* stage LLM pipeline (generate_pitch_plan) with its two REST adapters.    *)
(*                                                                         *)
(* Every collaborator call (respond, chat_postMessage, requests.post to    *)
(* Notion / OpenAI / Anthropic, create_pitch_plan_document) is one step of *)
(* a job; the Python code that runs between two collaborator calls is part *)
(* of the step of the call that precedes it.  The outcome of a call is     *)
(* chosen by the environment: an HTTP response (status, body) or a raised  *)
(* exception.                                                              *)
(***************************************************************************)
EXTENDS Integers, Sequences, FiniteSets, TLC

(* number of /start-pitch commands (one background thread each) *)
NumJobs == 2

Jobs == 1..NumJobs

VARIABLES
    pc,                  \* per job: the next collaborator call of its handler / worker
    client_name,         \* per job: command['text'].strip()
    channel_id,          \* per job: command['channel_id']
    client_data,         \* per job: local of process_pitch_plan
    strategic_foundation,\* per job: local of generate_pitch_plan
    narrative,           \* per job: local of generate_pitch_plan
    pitch_plan_data,     \* per job: local of process_pitch_plan
    document_url,        \* per job: local of process_pitch_plan
    posted,              \* per job: the respond / chat_postMessage calls issued, in order
    calls,               \* per job: the other collaborator calls issued, in order
    applied              \* the function applied last when functions are exercised alone

vars == <<pc, client_name, channel_id, client_data, strategic_foundation, narrative,
          pitch_plan_data, document_url, posted, calls, applied>>

-----------------------------------------------------------------------------
(* Python values *)

(* a local that has not been assigned *)
Unset == [unset |-> TRUE]

(* Optional[str]: None, or a text (a sequence; <<>> is the empty string) *)
None == [some |-> FALSE, text |-> <<>>]

Text(t) == [some |-> TRUE, text |-> t]

(* Python truthiness of an Optional[str]: `not v` *)
Falsy(v) == (~v.some) \/ Len(v.text) = 0

(* dict.get(key, default) *)
Get(d, key, default) == IF key \in DOMAIN d THEN d[key] ELSE default

EmptyDict == [k \in {} |-> k]

(* a call either returns a value or raises *)
Return(v) == [raised |-> FALSE, value |-> v]

Raise(e) == [raised |-> TRUE, value |-> e]

(* requests.post either returns a response or raises (connection error) *)
ConnectionError == [exception |-> "ConnectionError"]

Http(status, body) == [status_code |-> status, json |-> body]

-----------------------------------------------------------------------------
(* Strings that are matched or trimmed are sequences of characters *)

Whitespace == {" ", "\t", "\n"}

(* mutation of lower: the case is kept *)
lower_CaseKept(s) == s

LowerChar(c) ==
    CASE c = "A" -> "a"
      [] c = "B" -> "b"
      [] c = "C" -> "c"
      [] c = "Z" -> "z"
      [] OTHER -> c

lower(s) == [i \in 1..Len(s) |-> LowerChar(s[i])]

RECURSIVE lstrip(_)
lstrip(s) == IF Len(s) > 0 /\ Head(s) \in Whitespace THEN lstrip(Tail(s)) ELSE s

RECURSIVE rstrip(_)
rstrip(s) ==
    IF Len(s) > 0 /\ s[Len(s)] \in Whitespace
    THEN rstrip(SubSeq(s, 1, Len(s) - 1))
    ELSE s

strip(s) == rstrip(lstrip(s))

(* Python `sub in s` *)
IsIn(sub, s) ==
    \E i \in 1..(Len(s) - Len(sub) + 1) : SubSeq(s, i, i + Len(sub) - 1) = sub

-----------------------------------------------------------------------------
(* notion_extractor.py *)

extract_title(prop) ==
    IF Get(prop, "type", "") = "title"
    THEN LET title_array == Get(prop, "title", <<>>)
         IN  IF Len(title_array) > 0
             THEN Get(Get(title_array[1], "text", EmptyDict), "content", <<>>)
             ELSE <<>>
    ELSE <<>>

extract_rich_text(prop) ==
    IF Get(prop, "type", "") = "rich_text"
    THEN LET rich_text_array == Get(prop, "rich_text", <<>>)
         IN  [i \in 1..Len(rich_text_array) |->
                 Get(Get(rich_text_array[i], "text", EmptyDict), "content", "")]
    ELSE <<>>

extract_select(prop) ==
    IF Get(prop, "type", "") = "select"
    THEN LET select_obj == Get(prop, "select", EmptyDict)
         IN  IF DOMAIN select_obj # {} THEN Get(select_obj, "name", "") ELSE ""
    ELSE ""

extract_multi_select(prop) ==
    IF Get(prop, "type", "") = "multi_select"
    THEN LET multi_select_array == Get(prop, "multi_select", <<>>)
         IN  [i \in 1..Len(multi_select_array) |-> Get(multi_select_array[i], "name", "")]
    ELSE <<>>

extract_url(prop) ==
    IF Get(prop, "type", "") = "url" THEN Get(prop, "url", "") ELSE ""

parse_client_page(page) ==
    LET properties == Get(page, "properties", EmptyDict)
        P(name) == Get(properties, name, EmptyDict)
    IN  [ client_name        |-> extract_title(P("Name")),
          status             |-> extract_select(P("Status")),
          services           |-> extract_multi_select(P("Services")),
          category           |-> extract_select(P("Category")),
          qualification_call |-> extract_url(P("Qualification Call")),
          discovery_call     |-> extract_url(P("Discovery Call")),
          discovery_notes    |-> extract_url(P("Discovery Notes")),
          pitch_strategy     |-> extract_url(P("Pitch Strategy")),
          pitch_deck         |-> extract_url(P("Pitch")),
          so_owner           |-> extract_rich_text(P("SO")),
          sales_owner        |-> extract_rich_text(P("Sales")) ]

(* the page title of results[i], as find_client_page reads it *)
ResultTitle(result) ==
    extract_title(Get(Get(result, "properties", EmptyDict), "Name", EmptyDict))

(* None, or the first result whose lower-cased title contains the lower-cased name *)
NoPage == [none |-> TRUE]

find_client_page(name, response) ==
    IF response.status_code = 200
    THEN LET results == Get(response.json, "results", <<>>)
             hits == {i \in 1..Len(results) : IsIn(lower(name), lower(ResultTitle(results[i])))}
         IN  IF hits = {}
             THEN NoPage
             ELSE results[CHOOSE i \in hits : \A k \in hits : i <= k]
    ELSE NoPage

NotFound(name) == [error |-> [text |-> "Client not found", name |-> name]]

(* requests.post raises inside find_client_page, or extract_client_data returns a dict *)
extract_client_data(name, response) ==
    IF "exception" \in DOMAIN response
    THEN Raise(response.exception)
    ELSE LET client_page == find_client_page(name, response)
         IN  IF "none" \in DOMAIN client_page
             THEN Return(NotFound(name))
             ELSE Return(parse_client_page(client_page))

(* Notion database contents the environment may answer with *)
TitleProp(chars) == [type |-> "title", title |-> <<[text |-> [content |-> chars]]>>]

PageUntitled == [properties |-> [Name |-> [type |-> "title", title |-> <<>>]]]

PageB == [properties |-> [Name |-> TitleProp(<<"B">>)]]

PageAb ==
    [properties |->
        [Name     |-> TitleProp(<<"A", "b">>),
         Status   |-> [type |-> "select", select |-> [name |-> "Active"]],
         Services |-> [type |-> "multi_select", multi_select |-> <<[name |-> "Media"]>>]]]

PageA == [properties |-> [Name |-> TitleProp(<<"a">>)]]

NotionResponses ==
    { Http(200, [results |-> <<PageUntitled, PageB, PageAb, PageA>>]),
      Http(200, [results |-> <<PageB>>]),
      Http(500, [message |-> "internal error"]),
      ConnectionError }

-----------------------------------------------------------------------------
(* llm_pipeline.py: the two REST adapters *)

(* response.json()["choices"][0]["message"]["content"] raises when a key or the
   first element is missing *)
OpenAIHasContent(body) ==
    /\ "choices" \in DOMAIN body
    /\ Len(body.choices) > 0
    /\ "message" \in DOMAIN body.choices[1]
    /\ "content" \in DOMAIN body.choices[1].message

openai_chat_completion(response) ==
    IF "exception" \in DOMAIN response
    THEN Raise(response.exception)
    ELSE IF response.status_code = 200
         THEN IF OpenAIHasContent(response.json)
              THEN Return(Text(response.json.choices[1].message.content))
              ELSE Raise("KeyError")
         ELSE Return(None)

(* response.json()["content"][0]["text"] *)
AnthropicHasText(body) ==
    /\ "content" \in DOMAIN body
    /\ Len(body.content) > 0
    /\ "text" \in DOMAIN body.content[1]

anthropic_completion(response) ==
    IF "exception" \in DOMAIN response
    THEN Raise(response.exception)
    ELSE IF response.status_code = 200
         THEN IF AnthropicHasText(response.json)
              THEN Return(Text(response.json.content[1].text))
              ELSE Raise("KeyError")
         ELSE Return(None)

(* what the providers answer to a prompt: a completion, an empty completion,
   a 200 whose body lacks the text field, an error status *)
Completion(prompt) == <<"completion", prompt.task>>

ErrorBody == [error |-> [message |-> "overloaded"]]

OpenAIResponses(prompt) ==
    { Http(200, [choices |-> <<[message |-> [content |-> Completion(prompt)]]>>]),
      Http(200, [choices |-> <<[message |-> [content |-> <<>>]]>>]),
      Http(200, ErrorBody),
      Http(500, ErrorBody) }

AnthropicResponses(prompt) ==
    { Http(200, [content |-> <<[text |-> Completion(prompt)]>>]),
      Http(200, [content |-> <<[text |-> <<>>]>>]),
      Http(200, ErrorBody),
      Http(500, ErrorBody) }

-----------------------------------------------------------------------------
(* llm_pipeline.py: prompts and the pipeline *)

format_client_info(cd) ==
    [ client_name        |-> Get(cd, "client_name", "Unknown"),
      status             |-> Get(cd, "status", "Unknown"),
      category           |-> Get(cd, "category", "Unknown"),
      services           |-> Get(cd, "services", "Unknown"),
      so_owner           |-> Get(cd, "so_owner", "Unknown"),
      sales_owner        |-> Get(cd, "sales_owner", "Unknown"),
      qualification_call |-> Get(cd, "qualification_call", "N/A"),
      discovery_call     |-> Get(cd, "discovery_call", "N/A"),
      discovery_notes    |-> Get(cd, "discovery_notes", "N/A"),
      pitch_strategy     |-> Get(cd, "pitch_strategy", "N/A") ]

StrategicPrompt(cd) ==
    [ task |-> "strategic_analysis", client_info |-> format_client_info(cd) ]

(* mutation of NarrativePrompt: built without the output of Stage 1 *)
NarrativePrompt_Early(sf, cd) ==
    [ task                 |-> "narrative_development",
      strategic_foundation |-> <<>>,
      client               |-> Get(cd, "client_name", "the client") ]

NarrativePrompt(sf, cd) ==
    [ task                 |-> "narrative_development",
      strategic_foundation |-> sf.text,
      client               |-> Get(cd, "client_name", "the client") ]

PlanPrompt(sf, nar, cd) ==
    [ task                 |-> "plan_integration",
      strategic_foundation |-> sf.text,
      narrative            |-> nar.text,
      client               |-> Get(cd, "client_name", "Client") ]

(* mutation of Interpolate: the value is cut to its first character *)
Interpolate_Truncated(v) == SubSeq(v, 1, 1)

(* `{value}` in an f-string, for a str value: the characters of the value *)
Interpolate(v) == v

(* the f-string of narrative_development: the fixed parts are one element each,
   the interpolated values are spelled out *)
narrative_development_prompt(sf, cd) ==
    LET cn == Get(cd, "client_name", <<"the client">>)
    IN  <<"Transform this strategic analysis ... STRATEGIC FOUNDATION:">>
        \o Interpolate(sf)
        \o <<"CLIENT: ">> \o Interpolate(cn)
        \o <<"Create exactly 3 paragraphs: SITUATION (Paragraph 1): Acknowledge ">>
        \o Interpolate(cn)
        \o <<"'s current position ... REQUIREMENTS: - Use ">>
        \o Interpolate(cn)
        \o <<" specifically throughout ... 150-200 words each paragraph">>

(* the f-string of plan_integration *)
plan_integration_prompt(sf, nar, cd) ==
    LET cn == Get(cd, "client_name", <<"Client">>)
    IN  <<"Create comprehensive pitch plan ... STRATEGIC FOUNDATION:">>
        \o Interpolate(sf)
        \o <<"NARRATIVE:">> \o Interpolate(nar)
        \o <<"CLIENT: ">> \o Interpolate(cn)
        \o <<"Create a complete pitch plan with these sections: ... Professional formatting">>

(* mutation of Step1Failed: the check after step 1 is dropped *)
Step1Failed_Dropped(sf) == FALSE

(* mutation of Step2Failed: only None is taken as a failure (`is None`) *)
Step2Failed_NoneOnly(nar) == ~nar.some

(* `if not strategic_foundation:` / `if not narrative:` / `if not final_plan:` *)
Step1Failed(sf) == Falsy(sf)

Step2Failed(nar) == Falsy(nar)

Step3Failed(fp) == Falsy(fp)

Step1Error == [error |-> "Failed at strategic analysis step"]

Step2Error == [error |-> "Failed at narrative development step"]

Step3Error == [error |-> "Failed at plan integration step"]

ResultBundle(cd, sf, nar, fp) ==
    [ client_name          |-> Get(cd, "client_name", None),
      strategic_foundation |-> sf,
      narrative            |-> nar,
      final_plan           |-> fp,
      generated_at         |-> "%Y-%m-%d %H:%M:%S" ]

-----------------------------------------------------------------------------
(* slack_bot.py *)

(* the /start-pitch texts tried: empty, blank, a name with surrounding blanks *)
CommandTexts == { <<>>, <<" ">>, <<" ", "a", " ">> }

(* create_pitch_plan_document returns the document URL or None *)
DocumentUrl == Text(<<"https://docs.google.com/document/d/1">>)

DocumentResults == { DocumentUrl, None }

(* the channels the commands come from; command j comes from them in turn *)
Channels == <<"C1", "C2">>

CommandChannel(j) == Channels[((j - 1) % Len(Channels)) + 1]

Message(channel, kind, detail, ok) ==
    [channel |-> channel, kind |-> kind, detail |-> detail, ok |-> ok]

(* mutation of PostChannel: the worker posts to one fixed channel *)
PostChannel_Fixed(j) == Channels[1]

(* `channel=channel_id`: the argument the thread was started with *)
PostChannel(j) == channel_id[j]

(* a statement inside `try:` that raises transfers control to `except Exception` *)
TryNext(ok, next) == IF ok THEN next ELSE "except"

(* an except block that posts its message again when the post raised *)
ExceptNext_Retry(ok) == IF ok THEN "done" ELSE "except"

(* the chat_postMessage of the except block is not itself guarded *)
ExceptNext(ok) == IF ok THEN "done" ELSE "crashed"

(* mutation of AfterExtract: the pipeline is started without its notification *)
AfterExtract_Unannounced(cd) ==
    IF "error" \in DOMAIN cd THEN "post_not_found" ELSE "strategic_analysis"

(* mutation of AfterExtract: the worker returns without the not-found message *)
AfterExtract_Silent(cd) == IF "error" \in DOMAIN cd THEN "done" ELSE "post_generating"

(* `if 'error' in client_data:` *)
AfterExtract(cd) == IF "error" \in DOMAIN cd THEN "post_not_found" ELSE "post_generating"

(* mutation of AfterGenerate: a failed pipeline is run again *)
AfterGenerate_Retry(ppd) ==
    IF "error" \in DOMAIN ppd THEN "strategic_analysis" ELSE "post_publishing"

(* `if 'error' in pitch_plan_data:` *)
AfterGenerate(ppd) ==
    IF "error" \in DOMAIN ppd THEN "post_generation_failed" ELSE "post_publishing"

(* mutation of AfterPublish: the missing URL is not checked *)
AfterPublish_Unchecked(url) == "post_done"

(* `if not document_url:` *)
AfterPublish(url) == IF Falsy(url) THEN "post_document_failed" ELSE "post_done"

(* no function has been applied *)
NoApplication == [fn |-> "none"]

(* mutation of NameMissing: the handler does not look at the name *)
NameMissing_Unchecked(name) == FALSE

(* `if not client_name:` *)
NameMissing(name) == Len(name) = 0

Init ==
    /\ pc = [j \in Jobs |-> "idle"]
    /\ client_name = [j \in Jobs |-> <<>>]
    /\ channel_id = [j \in Jobs |-> ""]
    /\ client_data = [j \in Jobs |-> Unset]
    /\ strategic_foundation = [j \in Jobs |-> Unset]
    /\ narrative = [j \in Jobs |-> Unset]
    /\ pitch_plan_data = [j \in Jobs |-> Unset]
    /\ document_url = [j \in Jobs |-> Unset]
    /\ posted = [j \in Jobs |-> <<>>]
    /\ calls = [j \in Jobs |-> <<>>]
    /\ applied = NoApplication

Post(j, kind, detail, ok, next) ==
    /\ posted' = [posted EXCEPT ![j] = Append(@, Message(PostChannel(j), kind, detail, ok))]
    /\ pc' = [pc EXCEPT ![j] = TryNext(ok, next)]

(* the log entry of a collaborator call: what was passed, what the collaborator
   answered, and what the call gave back to its caller *)
Call(j, fn, arg, response, out) ==
    calls' = [calls EXCEPT ![j] =
                 Append(@, [fn |-> fn, arg |-> arg, response |-> response, out |-> out])]

(* handle_start_pitch: ack, strip, usage reply or RECEIVED reply and thread start *)
HandleStartPitch(j) ==
    /\ pc[j] = "idle"
    /\ \E text \in CommandTexts, ok \in BOOLEAN :
         LET name == strip(text)
             channel == CommandChannel(j)
         IN  /\ client_name' = [client_name EXCEPT ![j] = name]
             /\ channel_id' = [channel_id EXCEPT ![j] = channel]
             /\ IF NameMissing(name)
                THEN /\ posted' = [posted EXCEPT ![j] =
                                      Append(@, Message(channel, "USAGE", "", ok))]
                     /\ pc' = [pc EXCEPT ![j] = "no_job"]
                ELSE /\ posted' = [posted EXCEPT ![j] =
                                      Append(@, Message(channel, "RECEIVED", "", ok))]
                     /\ pc' = [pc EXCEPT ![j] = IF ok THEN "post_extracting" ELSE "no_job"]
    /\ UNCHANGED <<applied, client_data, strategic_foundation, narrative,
                   pitch_plan_data, document_url, calls>>

PostExtracting(j) ==
    /\ pc[j] = "post_extracting"
    /\ \E ok \in BOOLEAN : Post(j, "EXTRACTING", "", ok, "extract")
    /\ UNCHANGED <<applied, client_name, channel_id, client_data, strategic_foundation, narrative,
                   pitch_plan_data, document_url, calls>>

ExtractClientData(j) ==
    /\ pc[j] = "extract"
    /\ \E response \in NotionResponses :
         LET out == extract_client_data(client_name[j], response)
         IN  /\ Call(j, "extract_client_data", client_name[j], response, out)
             /\ IF out.raised
                THEN /\ pc' = [pc EXCEPT ![j] = "except"]
                     /\ UNCHANGED client_data
                ELSE /\ client_data' = [client_data EXCEPT ![j] = out.value]
                     /\ pc' = [pc EXCEPT ![j] = AfterExtract(out.value)]
    /\ UNCHANGED <<applied, client_name, channel_id, strategic_foundation, narrative, pitch_plan_data,
                   document_url, posted>>

PostNotFound(j) ==
    /\ pc[j] = "post_not_found"
    /\ \E ok \in BOOLEAN : Post(j, "NOT_FOUND", "", ok, "done")
    /\ UNCHANGED <<applied, client_name, channel_id, client_data, strategic_foundation, narrative,
                   pitch_plan_data, document_url, calls>>

PostGenerating(j) ==
    /\ pc[j] = "post_generating"
    /\ \E ok \in BOOLEAN : Post(j, "GENERATING", "", ok, "strategic_analysis")
    /\ UNCHANGED <<applied, client_name, channel_id, client_data, strategic_foundation, narrative,
                   pitch_plan_data, document_url, calls>>

(* generate_pitch_plan, step 1: strategic_analysis -> openai_chat_completion *)
StrategicAnalysis(j) ==
    /\ pc[j] = "strategic_analysis"
    /\ LET prompt == StrategicPrompt(client_data[j])
       IN  \E response \in OpenAIResponses(prompt) :
             LET out == openai_chat_completion(response)
             IN  /\ Call(j, "openai_chat_completion", prompt, response, out)
                 /\ IF out.raised
                    THEN /\ pc' = [pc EXCEPT ![j] = "except"]
                         /\ UNCHANGED <<strategic_foundation, pitch_plan_data>>
                    ELSE /\ strategic_foundation' =
                                [strategic_foundation EXCEPT ![j] = out.value]
                         /\ IF Step1Failed(out.value)
                            THEN /\ pitch_plan_data' =
                                        [pitch_plan_data EXCEPT ![j] = Step1Error]
                                 /\ pc' = [pc EXCEPT ![j] = AfterGenerate(Step1Error)]
                            ELSE /\ pc' = [pc EXCEPT ![j] = "narrative_development"]
                                 /\ UNCHANGED pitch_plan_data
    /\ UNCHANGED <<applied, client_name, channel_id, client_data, narrative, document_url, posted>>

(* generate_pitch_plan, step 2: narrative_development -> anthropic_completion *)
NarrativeDevelopment(j) ==
    /\ pc[j] = "narrative_development"
    /\ LET prompt == NarrativePrompt(strategic_foundation[j], client_data[j])
       IN  \E response \in AnthropicResponses(prompt) :
             LET out == anthropic_completion(response)
             IN  /\ Call(j, "anthropic_completion", prompt, response, out)
                 /\ IF out.raised
                    THEN /\ pc' = [pc EXCEPT ![j] = "except"]
                         /\ UNCHANGED <<narrative, pitch_plan_data>>
                    ELSE /\ narrative' = [narrative EXCEPT ![j] = out.value]
                         /\ IF Step2Failed(out.value)
                            THEN /\ pitch_plan_data' =
                                        [pitch_plan_data EXCEPT ![j] = Step2Error]
                                 /\ pc' = [pc EXCEPT ![j] = AfterGenerate(Step2Error)]
                            ELSE /\ pc' = [pc EXCEPT ![j] = "plan_integration"]
                                 /\ UNCHANGED pitch_plan_data
    /\ UNCHANGED <<applied, client_name, channel_id, client_data, strategic_foundation, document_url, posted>>

(* generate_pitch_plan, step 3: plan_integration -> openai_chat_completion, and
   the result bundle *)
PlanIntegration(j) ==
    /\ pc[j] = "plan_integration"
    /\ LET prompt == PlanPrompt(strategic_foundation[j], narrative[j], client_data[j])
       IN  \E response \in OpenAIResponses(prompt) :
             LET out == openai_chat_completion(response)
                 result == IF Step3Failed(out.value)
                           THEN Step3Error
                           ELSE ResultBundle(client_data[j], strategic_foundation[j],
                                             narrative[j], out.value)
             IN  /\ Call(j, "openai_chat_completion", prompt, response, out)
                 /\ IF out.raised
                    THEN /\ pc' = [pc EXCEPT ![j] = "except"]
                         /\ UNCHANGED pitch_plan_data
                    ELSE /\ pitch_plan_data' = [pitch_plan_data EXCEPT ![j] = result]
                         /\ pc' = [pc EXCEPT ![j] = AfterGenerate(result)]
    /\ UNCHANGED <<applied, client_name, channel_id, client_data, strategic_foundation, narrative,
                   document_url, posted>>

PostGenerationFailed(j) ==
    /\ pc[j] = "post_generation_failed"
    /\ \E ok \in BOOLEAN :
         Post(j, "GENERATION_FAILED", pitch_plan_data[j].error, ok, "done")
    /\ UNCHANGED <<applied, client_name, channel_id, client_data, strategic_foundation, narrative,
                   pitch_plan_data, document_url, calls>>

PostPublishing(j) ==
    /\ pc[j] = "post_publishing"
    /\ \E ok \in BOOLEAN : Post(j, "PUBLISHING", "", ok, "publish")
    /\ UNCHANGED <<applied, client_name, channel_id, client_data, strategic_foundation, narrative,
                   pitch_plan_data, document_url, calls>>

(* docs_formatter.create_pitch_plan_document(pitch_plan_data, team_emails) *)
CreateDocument(j) ==
    /\ pc[j] = "publish"
    /\ \E url \in DocumentResults :
         /\ Call(j, "create_pitch_plan_document", pitch_plan_data[j], url, Return(url))
         /\ document_url' = [document_url EXCEPT ![j] = url]
         /\ pc' = [pc EXCEPT ![j] = AfterPublish(url)]
    /\ UNCHANGED <<applied, client_name, channel_id, client_data, strategic_foundation, narrative,
                   pitch_plan_data, posted>>

PostDocumentFailed(j) ==
    /\ pc[j] = "post_document_failed"
    /\ \E ok \in BOOLEAN : Post(j, "DOCUMENT_FAILED", "", ok, "done")
    /\ UNCHANGED <<applied, client_name, channel_id, client_data, strategic_foundation, narrative,
                   pitch_plan_data, document_url, calls>>

PostDone(j) ==
    /\ pc[j] = "post_done"
    /\ \E ok \in BOOLEAN : Post(j, "DONE", document_url[j].text, ok, "done")
    /\ UNCHANGED <<applied, client_name, channel_id, client_data, strategic_foundation, narrative,
                   pitch_plan_data, document_url, calls>>

(* except Exception as e: chat_postMessage("System Error: ...") *)
PostSystemError(j) ==
    /\ pc[j] = "except"
    /\ \E ok \in BOOLEAN :
         /\ posted' = [posted EXCEPT ![j] =
                          Append(@, Message(PostChannel(j), "SYSTEM_ERROR", "str(e)", ok))]
         /\ pc' = [pc EXCEPT ![j] = ExceptNext(ok)]
    /\ UNCHANGED <<applied, client_name, channel_id, client_data, strategic_foundation, narrative,
                   pitch_plan_data, document_url, calls>>

Next ==
    \E j \in Jobs :
        \/ HandleStartPitch(j)
        \/ PostExtracting(j)
        \/ ExtractClientData(j)
        \/ PostNotFound(j)
        \/ PostGenerating(j)
        \/ StrategicAnalysis(j)
        \/ NarrativeDevelopment(j)
        \/ PlanIntegration(j)
        \/ PostGenerationFailed(j)
        \/ PostPublishing(j)
        \/ CreateDocument(j)
        \/ PostDocumentFailed(j)
        \/ PostDone(j)
        \/ PostSystemError(j)

Spec == Init /\ [][Next]_vars

(* every respond / chat_postMessage and every other collaborator call of the
   job so far has returned *)
AllCallsReturned(j) ==
    /\ \A m \in 1..Len(posted[j]) : posted[j][m].ok
    /\ \A i \in 1..Len(calls[j]) : ~calls[j][i].out.raised

(* the steps of the worker thread of job j in which the collaborator call
   returns; with every call returning the except block is never entered *)
ReturningWorker(j) ==
    /\ \/ PostExtracting(j)
       \/ ExtractClientData(j)
       \/ PostNotFound(j)
       \/ PostGenerating(j)
       \/ StrategicAnalysis(j)
       \/ NarrativeDevelopment(j)
       \/ PlanIntegration(j)
       \/ PostGenerationFailed(j)
       \/ PostPublishing(j)
       \/ CreateDocument(j)
       \/ PostDocumentFailed(j)
       \/ PostDone(j)
    /\ AllCallsReturned(j)'

ReturningCommand(j) == HandleStartPitch(j) /\ AllCallsReturned(j)'

ReturningNext ==
    \E j \in Jobs :
        \/ ReturningCommand(j)
        \/ ReturningWorker(j)

(* the program with collaborators whose calls all return: a started thread
   keeps being scheduled, and the call it blocks in comes back *)
LiveSpec == Init /\ [][ReturningNext]_vars /\ \A j \in Jobs : WF_vars(ReturningWorker(j))

-----------------------------------------------------------------------------
(* The functions of the pipeline and of the extractor exercised alone, each
   applied once to inputs drawn from bounded sets; no job runs. *)

(* longest text tried *)
MaxLen == 2

Strings(chars, n) == UNION {[1..k -> chars] : k \in 0..n}

(* non-empty stage outputs, as the pipeline passes on *)
StageOutputs == Strings({"x", "y"}, MaxLen) \ {<<>>}

(* records as parse_client_page produces them *)
ExtractedRecords == {parse_client_page(page) : page \in {PageB, PageAb, PageA}}

JobVars ==
    <<pc, client_name, channel_id, client_data, strategic_foundation, narrative,
      pitch_plan_data, document_url, posted, calls>>

ApplyNarrativePrompt ==
    /\ applied = NoApplication
    /\ \E sf \in StageOutputs, cd \in ExtractedRecords :
         applied' = [fn                   |-> "narrative_development",
                     strategic_foundation |-> sf,
                     client_data          |-> cd,
                     prompt               |-> narrative_development_prompt(sf, cd)]
    /\ UNCHANGED JobVars

ApplyPlanPrompt ==
    /\ applied = NoApplication
    /\ \E sf \in StageOutputs, nar \in StageOutputs, cd \in ExtractedRecords :
         applied' = [fn                   |-> "plan_integration",
                     strategic_foundation |-> sf,
                     narrative            |-> nar,
                     client_data          |-> cd,
                     prompt               |-> plan_integration_prompt(sf, nar, cd)]
    /\ UNCHANGED JobVars

(* most pages in the collection tried *)
MaxPages == 2

AcmeCorp == <<"A", "c", "m", "e", " ", "C", "o", "r", "p">>

(* page titles and queries tried; the empty title is a page without a name *)
Titles == Strings({"a", "B"}, MaxLen) \cup {AcmeCorp}

Queries == (Strings({"A", "b"}, MaxLen) \ {<<>>}) \cup {<<"a", "c", "m", "e">>}

(* the i-th page of a collection; its Status tells the pages apart *)
NumberedPage(title, i) ==
    [properties |-> [Name   |-> TitleProp(title),
                     Status |-> [type |-> "select", select |-> [name |-> i]]]]

TitleLists == UNION {[1..n -> Titles] : n \in 0..MaxPages}

ApplyExtractClientData ==
    /\ applied = NoApplication
    /\ \E name \in Queries, titles \in TitleLists :
         LET results == [i \in 1..Len(titles) |-> NumberedPage(titles[i], i)]
         IN  applied' = [fn          |-> "extract_client_data",
                         client_name |-> name,
                         titles      |-> titles,
                         out         |-> extract_client_data(
                                             name, Http(200, [results |-> results]))]
    /\ UNCHANGED JobVars

FunctionNext ==
    \/ ApplyNarrativePrompt
    \/ ApplyPlanPrompt
    \/ ApplyExtractClientData

FunctionSpec == Init /\ [][FunctionNext]_vars

-----------------------------------------------------------------------------
(* Vocabulary of the properties *)

Kinds(msgs) == [i \in 1..Len(msgs) |-> msgs[i].kind]

Returned(m) == m.ok

(* the notifications a job issued, and those whose call returned *)
Issued(j) == Kinds(posted[j])

Delivered(j) == Kinds(SelectSeq(posted[j], Returned))

Progress == <<"RECEIVED", "EXTRACTING", "GENERATING", "PUBLISHING", "DONE">>

IsProgress(k) == k \in {"RECEIVED", "EXTRACTING", "GENERATING", "PUBLISHING", "DONE"}

FailureKinds == {"NOT_FOUND", "GENERATION_FAILED", "DOCUMENT_FAILED", "SYSTEM_ERROR"}

TerminalKinds == FailureKinds \cup {"DONE"}

Count(ks, S) == Cardinality({i \in 1..Len(ks) : ks[i] \in S})

(* process_pitch_plan has returned, or an exception has left it *)
Finished(j) == pc[j] \in {"done", "crashed"}

IsAdapterCall(c) == c.fn \in {"openai_chat_completion", "anthropic_completion"}

AdapterCalls(j) == SelectSeq(calls[j], IsAdapterCall)

(* the call returned a non-empty text *)
YieldedText(c) == (~c.out.raised) /\ ~Falsy(c.out.value)

(* the HTTP call completed with a non-2xx status or a body lacking the text field *)
ProviderError(c) ==
    /\ "exception" \notin DOMAIN c.response
    /\ \/ c.response.status_code \notin 200..299
       \/ IF c.fn = "openai_chat_completion"
          THEN ~OpenAIHasContent(c.response.json)
          ELSE ~AnthropicHasText(c.response.json)

(* the stages whose adapter call did not yield a text, by position 1..3 *)
FailedStages(j) == {i \in 1..Len(AdapterCalls(j)) : ~YieldedText(AdapterCalls(j)[i])}

EarliestFailed(j) == CHOOSE i \in FailedStages(j) : \A k \in FailedStages(j) : i <= k

StageError(i) == CASE i = 1 -> Step1Error [] i = 2 -> Step2Error [] OTHER -> Step3Error

StageTasks == <<"strategic_analysis", "narrative_development", "plan_integration">>

IsFullBundle(ppd) ==
    /\ DOMAIN ppd = {"client_name", "strategic_foundation", "narrative", "final_plan",
                     "generated_at"}
    /\ ~Falsy(ppd.strategic_foundation)
    /\ ~Falsy(ppd.narrative)
    /\ ~Falsy(ppd.final_plan)

(* generate_pitch_plan was entered and is no longer running *)
PipelineOver(j) ==
    /\ Len(AdapterCalls(j)) >= 1
    /\ pc[j] \notin {"narrative_development", "plan_integration"}

PublishCalls(j) == SelectSeq(calls[j], LAMBDA c : c.fn = "create_pitch_plan_document")

(* extraction is the first collaborator call of a worker *)
ExtractReturnedNotFound(j) ==
    /\ Len(calls[j]) >= 1
    /\ calls[j][1].fn = "extract_client_data"
    /\ ~calls[j][1].out.raised
    /\ "error" \in DOMAIN calls[j][1].out.value

ExtractFoundRecord(j) ==
    /\ Len(calls[j]) >= 1
    /\ calls[j][1].fn = "extract_client_data"
    /\ ~calls[j][1].out.raised
    /\ "error" \notin DOMAIN calls[j][1].out.value

-----------------------------------------------------------------------------
(* C1: once generate_pitch_plan has been entered and is over, it has returned
   a value: the full bundle (client name, three non-empty stage outputs,
   timestamp) when every adapter call yielded a text, and otherwise the failure
   naming the earliest stage whose adapter call failed. *)
C1_ReturnsBundleOrEarliestFailure ==
    \A j \in Jobs :
        PipelineOver(j) =>
            /\ "unset" \notin DOMAIN pitch_plan_data[j]
            /\ IF FailedStages(j) = {}
               THEN IsFullBundle(pitch_plan_data[j])
               ELSE /\ DOMAIN pitch_plan_data[j] = {"error"}
                    /\ pitch_plan_data[j] = StageError(EarliestFailed(j))

(* C2: a finished job's notifications are RECEIVED, EXTRACTING, GENERATING,
   PUBLISHING, DONE, or a strict prefix of these followed by exactly one
   failure notification and nothing after it; read on the notifications
   issued or on those whose call returned. *)
InStateMachineOrder(ks) ==
    \/ ks = Progress
    \/ \E n \in 0..4 :
         /\ Len(ks) = n + 1
         /\ SubSeq(ks, 1, n) = SubSeq(Progress, 1, n)
         /\ ks[n + 1] \in FailureKinds

C2_OrderedNotifications ==
    \A j \in Jobs :
        Finished(j) => InStateMachineOrder(Issued(j)) \/ InStateMachineOrder(Delivered(j))

(* C3: a finished job has sent exactly one terminal notification (success or
   failure summary); read on the notifications issued or on those whose call
   returned. *)
C3_ExactlyOneTerminal ==
    \A j \in Jobs :
        Finished(j) =>
            \/ Count(Issued(j), TerminalKinds) = 1
            \/ Count(Delivered(j), TerminalKinds) = 1

(* C4: an adapter call is made only when every earlier adapter call of the job
   yielded a text: after a failed stage no later stage is invoked. *)
C4_NoStageAfterFailure ==
    \A j \in Jobs :
        LET ac == AdapterCalls(j)
        IN  \A i \in 1..Len(ac) : (~YieldedText(ac[i])) => i = Len(ac)

C4_Witness ==
    \E j \in Jobs :
        /\ pc[j] = "done"
        /\ Len(AdapterCalls(j)) = 1
        /\ ~YieldedText(AdapterCalls(j)[1])
        /\ pitch_plan_data[j] = Step1Error

(* C5: no exception leaves process_pitch_plan. *)
C5_NothingPropagates == \A j \in Jobs : pc[j] # "crashed"

(* C6: an adapter call that completes with a non-2xx status or with a body
   lacking the text field returns a failure value and does not raise. *)
C6_AdapterNeverRaises ==
    \A j \in Jobs :
        \A i \in 1..Len(calls[j]) :
            (IsAdapterCall(calls[j][i]) /\ ProviderError(calls[j][i])) =>
                /\ ~calls[j][i].out.raised
                /\ Falsy(calls[j][i].out.value)

(* C7: a finished job whose extraction returned not-found has the
   notifications RECEIVED, EXTRACTING and one not-found failure message, and
   has made no adapter call and no create_pitch_plan_document call; the
   notifications read as issued or as returned. *)
NotFoundSequence == <<"RECEIVED", "EXTRACTING", "NOT_FOUND">>

C7_NotFoundScenario ==
    \A j \in Jobs :
        (Finished(j) /\ ExtractReturnedNotFound(j)) =>
            /\ Issued(j) = NotFoundSequence \/ Delivered(j) = NotFoundSequence
            /\ Len(AdapterCalls(j)) = 0
            /\ Len(PublishCalls(j)) = 0

(* C8: a finished job in which a stage's adapter call failed (non-2xx status or
   body lacking the text field) has the notifications RECEIVED, EXTRACTING,
   GENERATING and one generation-failed message carrying that stage's error,
   and has not called create_pitch_plan_document; the notifications read as
   issued or as returned. *)
GenerationFailedSequence == <<"RECEIVED", "EXTRACTING", "GENERATING", "GENERATION_FAILED">>

C8_StageFailureScenario ==
    \A j \in Jobs :
        \A i \in 1..Len(AdapterCalls(j)) :
            (Finished(j) /\ ProviderError(AdapterCalls(j)[i])) =>
                /\ \/ Issued(j) = GenerationFailedSequence
                   \/ Delivered(j) = GenerationFailedSequence
                /\ \E m \in 1..Len(posted[j]) :
                      /\ posted[j][m].kind = "GENERATION_FAILED"
                      /\ posted[j][m].detail = StageError(i).error
                /\ Len(PublishCalls(j)) = 0

(* C9: a finished job has issued the DONE notification exactly when its
   extraction found a record, its three adapter calls yielded a text and
   create_pitch_plan_document returned a URL; when create_pitch_plan_document
   returned no URL, PUBLISHING is followed at once by the document-failed
   message and DONE is never issued. *)
AllSucceeded(j) ==
    /\ ExtractFoundRecord(j)
    /\ Len(AdapterCalls(j)) = 3
    /\ FailedStages(j) = {}
    /\ Len(PublishCalls(j)) = 1
    /\ ~Falsy(PublishCalls(j)[1].response)

PublishReturnedNone(j) ==
    /\ Len(PublishCalls(j)) = 1
    /\ Falsy(PublishCalls(j)[1].response)

C9_DoneIffAllSucceeded ==
    \A j \in Jobs :
        Finished(j) =>
            /\ Count(Issued(j), {"DONE"}) = (IF AllSucceeded(j) THEN 1 ELSE 0)
            /\ PublishReturnedNone(j) =>
                  /\ Count(Issued(j), {"DONE"}) = 0
                  /\ Len(Issued(j)) >= 5
                  /\ SubSeq(Issued(j), 1, 5) =
                        <<"RECEIVED", "EXTRACTING", "GENERATING", "PUBLISHING",
                          "DOCUMENT_FAILED">>

C9_Witness ==
    /\ \E j \in Jobs :
          /\ pc[j] = "done"
          /\ AllSucceeded(j)
          /\ Issued(j) = Progress
    /\ \E j \in Jobs :
          /\ pc[j] = "done"
          /\ PublishReturnedNone(j)
          /\ Issued(j)[5] = "DOCUMENT_FAILED"

(* C10: a job makes at most one adapter call per stage, in stage order, hence
   at most three; when the pipeline returned a stage failure and the job
   returned, the failure was reported by one generation-failed message and no
   stage was called again. *)
C10_NoRetries ==
    \A j \in Jobs :
        /\ LET ac == AdapterCalls(j)
           IN  /\ Len(ac) <= 3
               /\ \A i \in 1..Len(ac) : ac[i].arg.task = StageTasks[i]
        /\ (pc[j] = "done" /\ "error" \in DOMAIN pitch_plan_data[j]) =>
              Count(Issued(j), {"GENERATION_FAILED"}) = 1

C10_Witness ==
    \E j \in Jobs :
        /\ pc[j] = "done"
        /\ Len(AdapterCalls(j)) = 2
        /\ ~YieldedText(AdapterCalls(j)[2])
        /\ Count(Issued(j), {"GENERATION_FAILED"}) = 1

-----------------------------------------------------------------------------
(* the adapter call returned the empty text *)
ReturnedEmpty(c) == (~c.out.raised) /\ c.out.value.some /\ Len(c.out.value.text) = 0

(* C11: an adapter call that returned the empty text is the job's last adapter
   call and the pipeline's result is the failure of that stage; no prompt of a
   later stage carries an empty stage output, and a result that is not a
   failure is a bundle whose three stage outputs are non-empty. *)
C11_NeverEmptyOnSuccess ==
    \A j \in Jobs :
        LET ac == AdapterCalls(j)
        IN  /\ \A i \in 1..Len(ac) :
                  /\ ReturnedEmpty(ac[i]) =>
                        (i = Len(ac) /\ pitch_plan_data[j] = StageError(i))
                  /\ "strategic_foundation" \in DOMAIN ac[i].arg =>
                        Len(ac[i].arg.strategic_foundation) > 0
                  /\ "narrative" \in DOMAIN ac[i].arg => Len(ac[i].arg.narrative) > 0
            /\ ("unset" \notin DOMAIN pitch_plan_data[j]
                    /\ "error" \notin DOMAIN pitch_plan_data[j]) =>
                  IsFullBundle(pitch_plan_data[j])

C11_Witness ==
    /\ \E j \in Jobs :
          /\ Len(AdapterCalls(j)) = 2
          /\ ReturnedEmpty(AdapterCalls(j)[2])
          /\ pitch_plan_data[j] = Step2Error
          /\ pc[j] = "post_generation_failed"
    /\ \E j \in Jobs : IsFullBundle(pitch_plan_data[j])

-----------------------------------------------------------------------------
(* everything the model keeps of job j *)
JobState(j) ==
    <<pc[j], client_name[j], channel_id[j], client_data[j], strategic_foundation[j],
      narrative[j], pitch_plan_data[j], document_url[j], posted[j], calls[j]>>

(* every progress notification of the job stands at its own place in RECEIVED,
   EXTRACTING, GENERATING, PUBLISHING, DONE and every notification before it
   returned: the progress notifications, issued or returned, are in that order,
   none is skipped or repeated, and none follows a failure notification *)
OrderedPosts(j) ==
    \A a \in 1..Len(posted[j]) :
        IsProgress(posted[j][a].kind) =>
            /\ a <= Len(Progress)
            /\ posted[j][a].kind = Progress[a]
            /\ \A b \in 1..(a - 1) : posted[j][b].ok

AddressedToOwnChannel(j) ==
    LET own == CommandChannel(j)
    IN  \A m \in 1..Len(posted[j]) : posted[j][m].channel = own

OwnOrderAndChannel == \A j \in Jobs : OrderedPosts(j) /\ AddressedToOwnChannel(j)

StepOfOneJob ==
    \A j \in Jobs :
        (JobState(j)' # JobState(j)) =>
            \A k \in Jobs \ {j} : JobState(k)' = JobState(k)

(* C12: in every interleaving of the jobs, the notifications of each job, issued
   or returned, are in state-machine order (how many failure notifications
   there are is the matter of C2 and C3), every notification carries the
   channel of its own job's command, and a step of one job changes nothing of
   any other job. *)
C12_JobsIndependent == []OwnOrderAndChannel /\ [][StepOfOneJob]_vars

(* two jobs from different channels are under way at once, one about to fail
   and one about to succeed *)
C12_Witness ==
    \E j, k \in Jobs :
        /\ pc[j] = "post_done"
        /\ pc[k] = "post_not_found"
        /\ channel_id[j] # channel_id[k]
        /\ Issued(j) = <<"RECEIVED", "EXTRACTING", "GENERATING", "PUBLISHING">>
        /\ Issued(k) = <<"RECEIVED", "EXTRACTING">>

-----------------------------------------------------------------------------
(* C13: the Stage 2 prompt contains the whole Stage 1 output and the record's
   client name, and the Stage 3 prompt contains the whole Stage 1 output, the
   whole Stage 2 output and the record's client name, for every record and
   every pair of stage outputs. *)
C13_PromptsCarryPriorOutputs ==
    /\ applied.fn = "narrative_development" =>
          /\ IsIn(applied.strategic_foundation, applied.prompt)
          /\ IsIn(applied.client_data.client_name, applied.prompt)
    /\ applied.fn = "plan_integration" =>
          /\ IsIn(applied.strategic_foundation, applied.prompt)
          /\ IsIn(applied.narrative, applied.prompt)
          /\ IsIn(applied.client_data.client_name, applied.prompt)

C13_Witness ==
    /\ applied.fn = "plan_integration"
    /\ Len(applied.strategic_foundation) = MaxLen
    /\ Len(applied.narrative) = MaxLen
    /\ applied.strategic_foundation # applied.narrative
    /\ Len(applied.client_data.client_name) = 2

-----------------------------------------------------------------------------
(* the Notion property each field of the record is read from; the fields on
   the second line are lists or joined texts, the others are strings *)
StringFieldProperty ==
    [ status             |-> "Status",
      category           |-> "Category",
      qualification_call |-> "Qualification Call",
      discovery_call     |-> "Discovery Call",
      discovery_notes    |-> "Discovery Notes",
      pitch_strategy     |-> "Pitch Strategy" ]

ListFieldProperty ==
    [ services |-> "Services", so_owner |-> "SO", sales_owner |-> "Sales" ]

(* any spelling of the sentinel is accepted *)
StringSentinels == {"unknown", "Unknown", "N/A"}

ListSentinels == {<<s>> : s \in StringSentinels}

(* the page the job's extraction matched *)
MatchedPage(j) == find_client_page(calls[j][1].arg, calls[j][1].response)

(* C14: in the record of a job whose extraction found a page, every field other
   than the client name whose property the page lacks holds the "unknown"
   sentinel, and so does that field in the Stage 1 prompt. *)
C14_MissingFieldsUnknown ==
    \A j \in Jobs :
        ExtractFoundRecord(j) =>
            LET properties == Get(MatchedPage(j), "properties", EmptyDict)
                record == calls[j][1].out.value
                shown(f) == \A i \in 1..Len(calls[j]) :
                               (calls[j][i].fn = "openai_chat_completion"
                                   /\ calls[j][i].arg.task = "strategic_analysis") =>
                                   calls[j][i].arg.client_info[f] \in StringSentinels
            IN  /\ \A f \in DOMAIN StringFieldProperty :
                      StringFieldProperty[f] \notin DOMAIN properties =>
                          (record[f] \in StringSentinels /\ shown(f))
                /\ \A f \in DOMAIN ListFieldProperty :
                      ListFieldProperty[f] \notin DOMAIN properties =>
                          record[f] \in ListSentinels

-----------------------------------------------------------------------------
(* a worker thread was started for the command *)
WorkerStarted(j) == pc[j] \notin {"idle", "no_job"}

(* the client name an adapter call's prompt was built with *)
PromptClientName(c) ==
    IF c.arg.task = "strategic_analysis" THEN c.arg.client_info.client_name ELSE c.arg.client

(* C15: a worker is started only for a name that is non-empty after trimming,
   extraction is called with that name, the record extraction found has a
   non-empty client name, and so has every prompt of the pipeline. *)
C15_NonEmptyClientName ==
    \A j \in Jobs :
        /\ (WorkerStarted(j) \/ Len(calls[j]) > 0) => Len(client_name[j]) > 0
        /\ \A i \in 1..Len(calls[j]) :
              /\ calls[j][i].fn = "extract_client_data" => Len(calls[j][i].arg) > 0
              /\ IsAdapterCall(calls[j][i]) => Len(PromptClientName(calls[j][i])) > 0
        /\ ExtractFoundRecord(j) => Len(client_data[j].client_name) > 0

(* one command with a blank name started nothing while another job's record,
   found after an untitled page was passed over, reached the pipeline *)
C15_Witness ==
    \E j, k \in Jobs :
        /\ pc[j] = "no_job"
        /\ Len(client_name[j]) = 0
        /\ Len(calls[j]) = 0
        /\ Len(AdapterCalls(k)) >= 1
        /\ Len(calls[k][1].response.json.results) = 4
        /\ client_data[k].client_name = <<"A", "b">>

-----------------------------------------------------------------------------
(* the worker has returned after exactly one terminal notification *)
OneTerminalOutcome(j) ==
    /\ pc[j] = "done"
    /\ Count(Issued(j), TerminalKinds) = 1
    /\ Issued(j)[Len(Issued(j))] \in TerminalKinds

(* a worker that has not finished can take its next step *)
NeverStuck ==
    \A j \in Jobs : (WorkerStarted(j) /\ ~Finished(j)) => ENABLED ReturningWorker(j)

(* a finished worker does nothing more *)
NoStepAfterFinish == \A j \in Jobs : Finished(j) => JobState(j)' = JobState(j)

(* C16: when every collaborator call returns, there comes a time from which
   on a started worker has returned after exactly one terminal notification
   (DONE or a failure); before that it can always take its next step, and
   after it nothing of the job changes any more. *)
C16_ReachesOneTerminal ==
    /\ \A j \in Jobs : <>[](WorkerStarted(j) => OneTerminalOutcome(j))
    /\ []NeverStuck
    /\ [][NoStepAfterFinish]_vars

C16_Witness ==
    \E j, k \in Jobs :
        /\ AllCallsReturned(j) /\ AllCallsReturned(k)
        /\ OneTerminalOutcome(j) /\ OneTerminalOutcome(k)
        /\ Issued(j)[Len(Issued(j))] = "DONE"
        /\ Issued(k)[Len(Issued(k))] = "GENERATION_FAILED"

-----------------------------------------------------------------------------
(* containment regardless of case, stated on the letters themselves *)
CasePairs == {{"a", "A"}, {"b", "B"}, {"c", "C"}}

SameLetter(x, y) == x = y \/ {x, y} \in CasePairs

ContainsIgnoringCase(title, query) ==
    \E i \in 0..(Len(title) - Len(query)) :
        \A k \in 1..Len(query) : SameLetter(title[i + k], query[k])

(* C17: extract_client_data returns the record of the first page, in the order
   of the collection, whose name contains the query regardless of case, and
   the not-found value when no page's name does; "Acme Corp" is found for
   "acme". *)
C17_FirstCaseInsensitiveMatch ==
    applied.fn = "extract_client_data" =>
        LET titles == applied.titles
            hits == {i \in 1..Len(titles) : ContainsIgnoringCase(titles[i], applied.client_name)}
        IN  /\ ~applied.out.raised
            /\ IF hits = {}
               THEN applied.out.value = NotFound(applied.client_name)
               ELSE LET first == CHOOSE i \in hits : \A k \in hits : i <= k
                    IN  /\ "error" \notin DOMAIN applied.out.value
                        /\ applied.out.value.status = first
                        /\ applied.out.value.client_name = titles[first]
            /\ (Len(titles) > 0 /\ titles[1] = AcmeCorp
                    /\ applied.client_name = <<"a", "c", "m", "e">>) =>
                  applied.out.value.client_name = AcmeCorp

(* the first page does not contain the query, the second contains it in the
   other case and in the middle of its name *)
C17_Witness ==
    /\ applied.fn = "extract_client_data"
    /\ applied.client_name = <<"b">>
    /\ applied.titles = << <<"a">>, <<"a", "B">> >>
    /\ applied.out.value.status = 2

-----------------------------------------------------------------------------
(* the n-th progress notification is the job's n-th notification and its call
   returned *)
SentInPlace(j, n) ==
    /\ Len(posted[j]) >= n
    /\ posted[j][n].kind = Progress[n]
    /\ posted[j][n].ok

Called(j, fns) == \E i \in 1..Len(calls[j]) : calls[j][i].fn \in fns

(* C18: a progress notification is only ever issued at its own place in the
   job's notifications, hence at most once; a worker exists only after the
   RECEIVED reply was sent, extraction is called only after EXTRACTING was
   sent, an adapter is called only after GENERATING was sent and
   create_pitch_plan_document only after PUBLISHING was sent.  As this holds in
   every state, the notification precedes the call. *)
C18_NotifiedBeforeWork ==
    \A j \in Jobs :
        /\ \A a \in 1..Len(posted[j]) :
              IsProgress(posted[j][a].kind) =>
                  (a <= Len(Progress) /\ posted[j][a].kind = Progress[a])
        /\ WorkerStarted(j) => SentInPlace(j, 1)
        /\ (pc[j] = "extract" \/ Called(j, {"extract_client_data"})) => SentInPlace(j, 2)
        /\ (pc[j] = "strategic_analysis"
                \/ Called(j, {"openai_chat_completion", "anthropic_completion"})) =>
              SentInPlace(j, 3)
        /\ (pc[j] = "publish" \/ Called(j, {"create_pitch_plan_document"})) =>
              SentInPlace(j, 4)

(* one job has just had its document created, another is about to extract *)
C18_Witness ==
    \E j, k \in Jobs :
        /\ Len(PublishCalls(j)) = 1
        /\ Delivered(j) = <<"RECEIVED", "EXTRACTING", "GENERATING", "PUBLISHING">>
        /\ pc[k] = "extract"
        /\ Len(calls[k]) = 0
        /\ Delivered(k) = <<"RECEIVED", "EXTRACTING">>

-----------------------------------------------------------------------------
(* the adapter each stage calls: chat-style, single-prompt, chat-style *)
StageBackend == <<"openai_chat_completion", "anthropic_completion", "openai_chat_completion">>

(* C19: the adapter calls of a job are those of Stage 1, Stage 2, Stage 3 in
   that order, each through its own backend; every call but the last returned
   a non-empty text, and the prompt of each later call carries the text the
   earlier calls returned, so a call is issued only after the previous one has
   returned and no two are in flight together. *)
C19_StagesOneAfterAnother ==
    \A j \in Jobs :
        LET ac == AdapterCalls(j)
        IN  /\ Len(ac) <= Len(StageTasks)
            /\ \A i \in 1..Len(ac) :
                  /\ ac[i].arg.task = StageTasks[i]
                  /\ ac[i].fn = StageBackend[i]
                  /\ i < Len(ac) => YieldedText(ac[i])
                  /\ i >= 2 => ac[i].arg.strategic_foundation = ac[1].out.value.text
                  /\ i >= 3 => ac[i].arg.narrative = ac[2].out.value.text

C19_Witness ==
    \E j \in Jobs :
        /\ pc[j] = "post_publishing"
        /\ Len(AdapterCalls(j)) = 3
        /\ \A i \in 1..3 : YieldedText(AdapterCalls(j)[i])
        /\ AdapterCalls(j)[1].out.value # AdapterCalls(j)[2].out.value

-----------------------------------------------------------------------------
(* the command of job j has been handled *)
Handled(j) == pc[j] # "idle"

(* C20: a handled command whose name is empty after trimming has the usage
   reply as its only notification, no worker and no extraction, adapter or
   publish call; a handled command with a non-empty name has a worker. *)
C20_WorkerIffNamed ==
    \A j \in Jobs :
        Handled(j) =>
            IF Len(client_name[j]) = 0
            THEN /\ Issued(j) = <<"USAGE">>
                 /\ ~WorkerStarted(j)
                 /\ Len(calls[j]) = 0
            ELSE WorkerStarted(j)

-----------------------------------------------------------------------------
(* a collaborator call of the job raised instead of returning *)
CallRaised(j) == \E i \in 1..Len(calls[j]) : calls[j][i].out.raised

(* the generic message of the except block: it carries str(e), never the
   "Failed at ... step" text of generate_pitch_plan *)
IsSystemError(m) ==
    /\ m.kind = "SYSTEM_ERROR"
    /\ m.detail \notin {Step1Error.error, Step2Error.error, Step3Error.error}

(* where a job stands once a collaborator call has raised: the raising call is
   its last call, control is in the except block or past it, and until the
   except block has posted every notification is a progress notification that
   returned *)
StoppedByRaise(j) ==
    CallRaised(j) =>
        /\ calls[j][Len(calls[j])].out.raised
        /\ \A i \in 1..(Len(calls[j]) - 1) : ~calls[j][i].out.raised
        /\ pc[j] \in {"except", "done", "crashed"}
        /\ pc[j] = "except" =>
              \A m \in 1..Len(posted[j]) :
                  IsProgress(posted[j][m].kind) /\ posted[j][m].ok
        /\ Finished(j) => IsSystemError(posted[j][Len(posted[j])])

(* a step taken after a collaborator call of the job has raised: no call is
   added, and a notification is added only by the except block, which adds the
   generic message, the first of its kind, and ends the job *)
StepAfterRaise(j) ==
    CallRaised(j) =>
        /\ calls'[j] = calls[j]
        /\ posted'[j] # posted[j] =>
              /\ pc[j] = "except"
              /\ Len(posted'[j]) = Len(posted[j]) + 1
              /\ SubSeq(posted'[j], 1, Len(posted[j])) = posted[j]
              /\ IsSystemError(posted'[j][Len(posted'[j])])
              /\ \A m \in 1..Len(posted[j]) : posted[j][m].kind # "SYSTEM_ERROR"
              /\ Finished(j)'

(* C21: once a collaborator call of a job has raised, the job makes no further
   collaborator call, issues no further progress notification, and the only
   notification it issues afterwards is one generic system-error message, not a
   stage-naming generation failure. *)
C21_RaiseEndsInSystemError ==
    /\ [](\A j \in Jobs : StoppedByRaise(j))
    /\ [][\A j \in Jobs : StepAfterRaise(j)]_vars

(* a stage adapter raised on a malformed body after Stage 1 had succeeded, and
   the job has ended with the system-error message as its fourth notification *)
C21_Witness ==
    \E j \in Jobs :
        /\ Len(calls[j]) = 3
        /\ calls[j][3].fn = "anthropic_completion"
        /\ calls[j][3].out.raised
        /\ calls[j][3].response.status_code = 200
        /\ Finished(j)
        /\ Issued(j) = <<"RECEIVED", "EXTRACTING", "GENERATING", "SYSTEM_ERROR">>

====
